---- MODULE Spec2Model ----
(***************************************************************************)
(* State-machine model of pseudoscalar/rhythm.                             *)
(*                                                                         *)
(* src/src/main.rs is the program as it is wired: one specs dispatcher     *)
(* that runs, per tick, OmniSystem (audio clock + key events),             *)
(* RenderingSystem, TimeScrollingSystem, QuaverGeneratorSystem,            *)
(* TimedItemReaper and, as the thread-local system, SdlSystem; then        *)
(* world.maintain() and the IsRunning test.  Every pair of neighbouring    *)
(* systems shares a resource one of them writes, so shred runs them one    *)
(* after the other in the order they were added.  Specification Spec.      *)
(*                                                                         *)
(* src/src/rhythm.rs, src/src/sdl.rs and src/src/render.rs are the         *)
(* bar-relative pipeline: SdlSystem (sdl.rs) clears and refills the event  *)
(* queue, BarIndexTaggingSystem tags the targets a key hits.  main.rs      *)
(* does not add these systems to a dispatcher; their order in a tick and   *)
(* the lane targets they work on are taken from the design document.       *)
(* Specification SpecModular.                                              *)
(*                                                                         *)
(* Specification SpecDesync is Spec with a counter that can also be read   *)
(* lower than on the tick before.                                          *)
(*                                                                         *)
(* Times are milliseconds, samples are the sink's samples_written counter. *)
(* ClearColor (written by OmniSystem, read by SdlSystem) is a pure output  *)
(* of the beat phase and is left out of the state.                         *)
(***************************************************************************)
EXTENDS Integers, Sequences, FiniteSets, TLC

VARIABLES
    pc,              \* the system the dispatcher runs next
    samples_written, \* Sink::samples_written, advanced by the audio thread
    audio_time,      \* resource AudioTime
    audio_context,   \* resource AudioContext
    is_running,      \* resource IsRunning
    debug_flag,      \* resource DebugFlag
    input_events,    \* resource InputEvents, a Vec<InputEvent>
    event_index,     \* position of BarIndexTaggingSystem's `for event in &input_events.0`
    entities,        \* the world: entity -> its components
    killed,          \* entities deleted by a system, removed at world.maintain()
    created,         \* log of the targets QuaverGeneratorSystem has created, in order
    sdl_rects,       \* resource SdlRects, the draw list
    canvas,          \* what SdlSystem last presented
    polled,          \* number of key-down events polled so far
    desyncs,         \* number of times the counter was read lower than before
    dbg_hit,         \* the tuples rhythm.rs:102 printed for the last key event
    dbg_error        \* the error main.rs:201/203 printed for the last key event, if any

vars == <<pc, samples_written, audio_time, audio_context, is_running, debug_flag,
          input_events, event_index, entities, killed, created, sdl_rects, canvas,
          polled, desyncs, dbg_hit, dbg_error>>

----------------------------------------------------------------------------
(* Bounds of the model *)

\* The audio thread is followed for MaxChunks chunks of 50 ms of samples.
MaxChunks == 30
\* The player presses at most MaxKeys keys during a run.
MaxKeys == 2
\* The counter is read lower than before at most MaxDesyncs times.
MaxDesyncs == 1
\* samples_written when the first tick reads it (playback starts before the loop).
FirstRead == 662
\* the same for the bar-relative pipeline, which is followed for
\* MaxChunksModular chunks
FirstReadModular == 9751
MaxChunksModular == 64

----------------------------------------------------------------------------
(* Program constants *)

\* main.rs:444  milli_bpm: (160_000 - 150)
NominalMilliBpm == 160000
MilliBpm == NominalMilliBpm - 150
\* main.rs:445  first_beat_offset: 110
FirstBeatOffset == 110
\* main.rs:169  format.channels * format.sample_rate.0  (stereo, 44.1 kHz)
SamplesPerSec == 88200
\* main.rs:198  time.0 < audio_time.0 + 150
OmniWindow == 150
\* main.rs:199  timestamp as u64 + 45
TimestampBias == 45
\* main.rs:300  next_time - audio_time.0 < 1000
Lookahead == 1000
\* main.rs:328  time.0 + 1000 < audio_time.0
Grace == 1000
\* rhythm.rs:104  milli_error < 100
Tolerance == 100
\* main.rs:294  remainder > 30_000
RoundUpAbove == 30000
\* main.rs:292  the 60_000_000 of the quaver arithmetic
MicrosPerMinute == 60000000

\* a component an entity does not have
Absent == -1
NoColor == <<>>

\* Color::rgb values of main.rs:208-214 and 313
Black == <<0, 0, 0>>
Yellow == <<255, 255, 0>>
Pink == <<255, 128, 128>>
Magenta == <<255, 0, 255>>
Red == <<255, 0, 0>>

Min(S) == CHOOSE x \in S : \A y \in S : x <= y
Max(S) == CHOOSE x \in S : \A y \in S : y <= x
AbsDiff(a, b) == IF a > b THEN a - b ELSE b - a
\* u64::saturating_sub
SaturatingSub(a, b) == IF a > b THEN a - b ELSE 0

Keycodes == {"Left", "Right", "Escape", "Backquote", "None"}

\* The audio thread delivers samples in chunks of 50 ms.
Chunk == SamplesPerSec \div 20
\* chunks the counter may have advanced by between two reads
ChunkSteps == {0, 1, 24}
\* Display timestamps (SDL's own millisecond clock) carried by key events
Timestamps == {440, 560}

\* the keys of the two lanes (main.rs:303, 306)
LaneKeys == {"Left", "Right"}

\* Event::KeyDown { keycode, timestamp, .. }; only a lane key's timestamp is used
InputEventSet ==
    [keycode : LaneKeys, timestamp : Timestamps]
        \cup [keycode : Keycodes \ LaneKeys, timestamp : {Min(Timestamps)}]


----------------------------------------------------------------------------
(* The audio clock: OmniSystem::run, main.rs:167-180 *)

\* (sample_time * 1000.0) as u64, with
\* sample_time = samples / samples_per_sec - first_beat_offset / 1000.0.
\* The cast truncates and saturates at 0.  Every counter value the model reads
\* lies strictly between two milliseconds (FirstRead + n * Chunk is never a
\* whole number of milliseconds), so f64 rounding cannot move the result.
AudioTimeOfUnclamped(samples) ==
    LET scaled == samples * 1000 - audio_context.first_beat_offset * SamplesPerSec
    IN  IF scaled < 0 THEN (0 - scaled) \div SamplesPerSec ELSE scaled \div SamplesPerSec

AudioTimeOf(samples) ==
    LET scaled == samples * 1000 - audio_context.first_beat_offset * SamplesPerSec
    IN  IF scaled < 0 THEN 0 ELSE scaled \div SamplesPerSec

\* main.rs:167-182: the clock is refreshed from the counter value `reading`
\* and the debug flag is reset.
RefreshClock(reading) ==
    /\ desyncs' = IF reading < samples_written THEN desyncs + 1 ELSE desyncs
    /\ samples_written' = reading
    /\ audio_time' = AudioTimeOf(reading)
    /\ debug_flag' = FALSE

\* The counter values the audio thread can have reached since the last read:
\* it only ever adds (TrackingSource::next, main.rs:59).
CounterAdvances(max_chunks) ==
    { samples_written + c * Chunk : c \in
        { c \in ChunkSteps : samples_written \div Chunk + c <= max_chunks } }

----------------------------------------------------------------------------
(* Entities and their components *)

Live == DOMAIN entities

\* main.rs:458-462: the baseline, the only entity the setup creates
Baseline ==
    [time |-> Absent, input |-> "NoInput", bar_time |-> Absent, bar_index |-> Absent,
     color |-> Black, rect |-> <<3000, 1>>, pos_x |-> 0, pos_y5 |-> 1000]

\* join over (entities, TargetInput, TargetTime)
TimedTargets == { e \in Live : entities[e].time # Absent /\ entities[e].input # "NoInput" }

\* join over (entities, TargetInput, TargetBarTime, !BarIndex), rhythm.rs:89-90
UnresolvedBarTargets ==
    { e \in Live : /\ entities[e].bar_time # Absent
                   /\ entities[e].input # "NoInput"
                   /\ entities[e].bar_index = Absent }

----------------------------------------------------------------------------
(* Key events in OmniSystem::run, main.rs:183-222 *)

\* main.rs:198  .filter(|(_, input, time)| input.0 == keycode && time.0 < audio_time.0 + 150)
OmniCandidates(keycode) ==
    { e \in TimedTargets : /\ entities[e].input = keycode
                           /\ entities[e].time < audio_time + OmniWindow }

\* main.rs:198  .max_by_key(|(_, _, time)| time.0): the last of the latest ones
OmniTarget(keycode) ==
    LET c == OmniCandidates(keycode)
    IN  CHOOSE e \in c : \A o \in c :
            \/ entities[o].time < entities[e].time
            \/ (entities[o].time = entities[e].time /\ o <= e)

\* main.rs:199-204
OmniError(timestamp, target_time) == AbsDiff(timestamp + TimestampBias, target_time)

JudgmentColorStrict(error) ==
    IF error < 45 THEN Yellow
    ELSE IF error < 90 THEN Pink
    ELSE IF error < 135 THEN Magenta
    ELSE Red

\* main.rs:207-215
JudgmentColor(error) ==
    IF error <= 45 THEN Yellow
    ELSE IF error <= 90 THEN Pink
    ELSE IF error <= 135 THEN Magenta
    ELSE Red

\* One iteration of `for event in input_events.0.drain(..)`.
OmniHandle(event) ==
    CASE event.keycode = "Escape" ->
            /\ is_running' = FALSE
            /\ dbg_error' = Absent
            /\ UNCHANGED <<debug_flag, entities>>
      [] event.keycode = "Backquote" ->
            /\ debug_flag' = TRUE
            /\ dbg_error' = Absent
            /\ UNCHANGED <<is_running, entities>>
      [] event.keycode = "None" ->
            /\ dbg_error' = Absent
            /\ UNCHANGED <<is_running, debug_flag, entities>>
      [] OTHER ->
            /\ UNCHANGED <<is_running, debug_flag>>
            /\ IF OmniCandidates(event.keycode) = {}
               THEN dbg_error' = Absent /\ UNCHANGED entities
               ELSE LET e == OmniTarget(event.keycode)
                        error == OmniError(event.timestamp, entities[e].time)
                    IN  /\ dbg_error' = error
                        /\ entities' = [entities EXCEPT ![e].color =
                                            IF entities[e].color # NoColor
                                            THEN JudgmentColor(error)
                                            ELSE NoColor]

----------------------------------------------------------------------------
(* QuaverGeneratorSystem::run, main.rs:284-315 *)

\* main.rs:287
MaxTargetTime ==
    LET times == { entities[e].time : e \in { e \in Live : entities[e].time # Absent } }
    IN  IF times = {} THEN audio_time ELSE Max(times)

MaxQuaverTruncated(adj_max_time) ==
    (adj_max_time * audio_context.milli_bpm * 2) \div MicrosPerMinute

\* main.rs:292-296
MaxQuaver(adj_max_time) ==
    LET product == adj_max_time * audio_context.milli_bpm * 2
    IN  product \div MicrosPerMinute
          + (IF product % MicrosPerMinute > RoundUpAbove THEN 1 ELSE 0)

QuaverIndexNotAdvanced(max_time) ==
    MaxQuaver(SaturatingSub(max_time, audio_context.first_beat_offset))

\* main.rs:297
QuaverIndex(max_time) ==
    MaxQuaver(SaturatingSub(max_time, audio_context.first_beat_offset)) + 1

\* main.rs:298
NextTime(quaver_index) ==
    (quaver_index * MicrosPerMinute) \div (audio_context.milli_bpm * 2)
        + audio_context.first_beat_offset

ShouldSpawnAnyFuture(next_time) == next_time > audio_time

\* main.rs:300
ShouldSpawn(next_time) == next_time > audio_time /\ next_time - audio_time < Lookahead

\* main.rs:302-307
LaneOf(quaver_index) == IF quaver_index % 2 = 0 THEN "Left" ELSE "Right"
XOffsetOf(quaver_index) == IF quaver_index % 2 = 0 THEN -40 ELSE 40

\* entities.create(): a fresh entity; entities are numbered in creation order
NextEntity == Len(created) + 1

\* main.rs:309-313
NewTarget(quaver_index, next_time) ==
    [time |-> next_time, input |-> LaneOf(quaver_index), bar_time |-> Absent,
     bar_index |-> Absent, color |-> Black, rect |-> <<100, 40>>,
     pos_x |-> 430 + XOffsetOf(quaver_index), pos_y5 |-> 0]

----------------------------------------------------------------------------
(* TimedItemReaper::run, main.rs:325-331 *)

ExpiredAtGrace(e) == entities[e].time + Grace <= audio_time

\* main.rs:328
Expired(e) == entities[e].time + Grace < audio_time

ReaperTargets == { e \in Live : entities[e].time # Absent /\ Expired(e) }

----------------------------------------------------------------------------
(* TimeScrollingSystem::run and RenderingSystem::run *)

\* main.rs:263-266: pos.y = 200.0 + (target_time - audio_time) * 0.8, kept in fifths
ScrolledY5(target_time) == 1000 + 4 * (target_time - audio_time)

\* pos.y.round(): a multiple of 1/5 is never half-way between two integers
RoundY(y5) == (2 * y5 + 5) \div 10

RECURSIVE Ascending(_)
Ascending(S) == IF S = {} THEN <<>> ELSE <<Min(S)>> \o Ascending(S \ {Min(S)})

\* main.rs:239-247: one rectangle per entity with Rectangle, Position and Color
DrawList ==
    LET drawn == Ascending({ e \in Live : entities[e].color # NoColor })
    IN  [ i \in 1..Len(drawn) |->
            [color |-> entities[drawn[i]].color,
             x |-> entities[drawn[i]].pos_x,
             y |-> RoundY(entities[drawn[i]].pos_y5),
             rect |-> entities[drawn[i]].rect] ]

----------------------------------------------------------------------------
(* SdlSystem's poll *)

\* event_pump.poll_iter() filtered to KeyDown: the keys pressed since the last poll
PollBatches ==
    UNION { [1..n -> InputEventSet] : n \in 0..(MaxKeys - polled) }

----------------------------------------------------------------------------
(* The tick of main.rs: dispatcher.dispatch, world.maintain, the IsRunning test *)

\* main.rs:439-462: the resources and the baseline entity
Init ==
    /\ pc = "omni"
    /\ samples_written = FirstRead
    /\ audio_time = 0
    /\ audio_context = [milli_bpm |-> MilliBpm, first_beat_offset |-> FirstBeatOffset,
                        beats_per_bar |-> 0, bar_millis |-> 0, beat_millis |-> 0]
    /\ is_running = TRUE
    /\ debug_flag = FALSE
    /\ input_events = <<>>
    /\ event_index = 0
    /\ entities = (0 :> Baseline)
    /\ killed = {}
    /\ created = <<>>
    /\ sdl_rects = <<>>
    /\ canvas = <<>>
    /\ polled = 0
    /\ desyncs = 0
    /\ dbg_hit = <<>>
    /\ dbg_error = Absent

\* OmniSystem::run, main.rs:167-182, reading the counter the audio thread advanced
OmniClockFrom(readings) ==
    /\ pc = "omni"
    /\ \E reading \in readings : RefreshClock(reading)
    /\ pc' = IF input_events = <<>> THEN "rendering" ELSE "omni_events"
    /\ UNCHANGED <<audio_context, is_running, input_events, event_index, entities,
                   killed, created, sdl_rects, canvas, polled, dbg_hit, dbg_error>>

OmniClock == OmniClockFrom(CounterAdvances(MaxChunks))

\* OmniSystem::run, main.rs:183-222: the next drained event
OmniEvent ==
    /\ pc = "omni_events"
    /\ OmniHandle(Head(input_events))
    /\ input_events' = Tail(input_events)
    /\ pc' = IF Tail(input_events) = <<>> THEN "rendering" ELSE "omni_events"
    /\ UNCHANGED <<samples_written, audio_time, audio_context, event_index, killed,
                   created, sdl_rects, canvas, polled, desyncs, dbg_hit>>

\* RenderingSystem::run, main.rs:234-249
Rendering ==
    /\ pc = "rendering"
    /\ sdl_rects' = DrawList
    /\ pc' = "time_scrolling"
    /\ UNCHANGED <<samples_written, audio_time, audio_context, is_running, debug_flag,
                   input_events, event_index, entities, killed, created, canvas,
                   polled, desyncs, dbg_hit, dbg_error>>

\* TimeScrollingSystem::run, main.rs:259-268
TimeScrolling ==
    /\ pc = "time_scrolling"
    /\ entities' = [ e \in Live |->
                       IF entities[e].time # Absent
                       THEN [entities[e] EXCEPT !.pos_y5 = ScrolledY5(entities[e].time)]
                       ELSE entities[e] ]
    /\ pc' = "quaver"
    /\ UNCHANGED <<samples_written, audio_time, audio_context, is_running, debug_flag,
                   input_events, event_index, killed, created, sdl_rects, canvas,
                   polled, desyncs, dbg_hit, dbg_error>>

\* QuaverGeneratorSystem::run, main.rs:284-315
QuaverGenerator ==
    /\ pc = "quaver"
    /\ LET quaver_index == QuaverIndex(MaxTargetTime)
           next_time == NextTime(quaver_index)
       IN  IF ShouldSpawn(next_time)
           THEN /\ entities' = (NextEntity :> NewTarget(quaver_index, next_time)) @@ entities
                /\ created' = Append(created, [entity |-> NextEntity,
                                               input |-> LaneOf(quaver_index),
                                               time |-> next_time,
                                               quaver |-> quaver_index])
           ELSE UNCHANGED <<entities, created>>
    /\ pc' = "reaper"
    /\ UNCHANGED <<samples_written, audio_time, audio_context, is_running, debug_flag,
                   input_events, event_index, killed, sdl_rects, canvas, polled, desyncs,
                   dbg_hit, dbg_error>>

\* TimedItemReaper::run, main.rs:325-331
TimedItemReaper ==
    /\ pc = "reaper"
    /\ killed' = killed \cup ReaperTargets
    /\ pc' = "sdl"
    /\ UNCHANGED <<samples_written, audio_time, audio_context, is_running, debug_flag,
                   input_events, event_index, entities, created, sdl_rects, canvas,
                   polled, desyncs, dbg_hit, dbg_error>>

\* SdlSystem::run, main.rs:128-145: the thread-local system, run after the others
SdlPoll ==
    /\ pc = "sdl"
    /\ \E batch \in PollBatches :
          /\ input_events' = input_events \o batch
          /\ polled' = polled + Len(batch)
    /\ canvas' = sdl_rects
    /\ pc' = "maintain"
    /\ UNCHANGED <<samples_written, audio_time, audio_context, is_running, debug_flag,
                   event_index, entities, killed, created, sdl_rects, desyncs, dbg_hit,
                   dbg_error>>

MaintainWithoutTest ==
    /\ pc = "maintain"
    /\ entities' = [ e \in Live \ killed |-> entities[e] ]
    /\ killed' = {}
    /\ pc' = "omni"
    /\ UNCHANGED <<samples_written, audio_time, audio_context, is_running, debug_flag,
                   input_events, event_index, created, sdl_rects, canvas, polled, desyncs,
                   dbg_hit, dbg_error>>

\* main.rs:478-481: world.maintain() removes the deleted entities, then the
\* loop tests IsRunning
Maintain ==
    /\ pc = "maintain"
    /\ entities' = [ e \in Live \ killed |-> entities[e] ]
    /\ killed' = {}
    /\ pc' = IF is_running THEN "omni" ELSE "exited"
    /\ UNCHANGED <<samples_written, audio_time, audio_context, is_running, debug_flag,
                   input_events, event_index, created, sdl_rects, canvas, polled, desyncs,
                   dbg_hit, dbg_error>>

Next ==
    \/ OmniClock
    \/ OmniEvent
    \/ Rendering
    \/ TimeScrolling
    \/ QuaverGenerator
    \/ TimedItemReaper
    \/ SdlPoll
    \/ Maintain

Spec == Init /\ [][Next]_vars

----------------------------------------------------------------------------
(* The same tick when the counter can be read lower than before (a usize     *)
(* counter wraps, a sink can be restarted): nothing in OmniSystem::run       *)
(* compares the reading with the previous one.                               *)

\* the counter read one chunk lower than before
CounterSetbacks ==
    { r \in {samples_written - Chunk} : r >= 0 /\ desyncs < MaxDesyncs }

OmniClockDesync == OmniClockFrom(CounterAdvances(MaxChunks) \cup CounterSetbacks)

NextDesync ==
    \/ OmniClockDesync
    \/ OmniEvent
    \/ Rendering
    \/ TimeScrolling
    \/ QuaverGenerator
    \/ TimedItemReaper
    \/ SdlPoll
    \/ Maintain

SpecDesync == Init /\ [][NextDesync]_vars

----------------------------------------------------------------------------
(* The same tick when the audio device can go away while the loop runs.      *)
(* The Device and Sink resources stay in the world (main.rs:447-448), so the *)
(* `if let (Some(device), Some(sink))` of main.rs:167 always matches; what a *)
(* lost device changes is the result of device.default_output_format().      *)

\* main.rs:168: default_output_format() returns Err for a device that is no
\* longer available, and .expect("Couldn't get default output format") panics:
\* the thread that runs the loop unwinds out of OmniSystem::run
OmniDeviceLost ==
    /\ pc = "omni"
    /\ pc' = "panicked"
    /\ UNCHANGED <<samples_written, audio_time, audio_context, is_running, debug_flag,
                   input_events, event_index, entities, killed, created, sdl_rects,
                   canvas, polled, desyncs, dbg_hit, dbg_error>>

NextDeviceLoss ==
    \/ OmniClock
    \/ OmniDeviceLost
    \/ OmniEvent
    \/ Rendering
    \/ TimeScrolling
    \/ QuaverGenerator
    \/ TimedItemReaper
    \/ SdlPoll
    \/ Maintain

SpecDeviceLoss == Init /\ [][NextDeviceLoss]_vars

----------------------------------------------------------------------------
(* The bar-relative pipeline: rhythm.rs and sdl.rs *)

\* AudioContext::new, rhythm.rs:28-38
AudioContextNew(milli_bpm, first_beat_offset, beats_per_bar) ==
    [milli_bpm |-> milli_bpm,
     first_beat_offset |-> first_beat_offset,
     beats_per_bar |-> beats_per_bar,
     bar_millis |-> (MicrosPerMinute * beats_per_bar) \div milli_bpm,
     beat_millis |-> MicrosPerMinute \div milli_bpm]

\* AudioContext::make_bar_time, rhythm.rs:40-42
MakeBarTime(ctx, multiple, division, index) ==
    (ctx.beat_millis * index * multiple) \div division

NearestBarFloored(t, bar_time) ==
    SaturatingSub(t, bar_time) \div audio_context.bar_millis

\* rhythm.rs:94
NearestBar(t, bar_time) ==
    (SaturatingSub(t, bar_time) + audio_context.bar_millis \div 2)
        \div audio_context.bar_millis

\* rhythm.rs:95
HitTargetTime(nearest_bar, bar_time) == nearest_bar * audio_context.bar_millis + bar_time

\* rhythm.rs:96-100
MilliError(t, target_time) == AbsDiff(t, target_time)

WithinToleranceInclusive(milli_error) == milli_error <= Tolerance

\* rhythm.rs:104
WithinTolerance(milli_error) == milli_error < Tolerance

\* rhythm.rs:89-91: the unresolved targets of the key's lane, in join order
LaneCandidates(keycode) ==
    { e \in UnresolvedBarTargets : entities[e].input = keycode }

\* rhythm.rs:92-109: (entity, nearest_bar, milli_error) of the candidate e
HitOf(e) ==
    LET nearest_bar == NearestBar(audio_time, entities[e].bar_time)
        target_time == HitTargetTime(nearest_bar, entities[e].bar_time)
    IN  [entity |-> e, nearest_bar |-> nearest_bar, target_time |-> target_time,
         milli_error |-> MilliError(audio_time, target_time)]

\* rhythm.rs:89-109: targets_hit
TargetsHit(keycode) ==
    { e \in LaneCandidates(keycode) : WithinTolerance(HitOf(e).milli_error) }

\* rhythm.rs:102: dbg!((target_bar_time, nearest_bar, target_time, milli_error))
DbgTuples(keycode) ==
    LET order == Ascending(LaneCandidates(keycode))
    IN  [ i \in 1..Len(order) |->
            <<entities[order[i]].bar_time, HitOf(order[i]).nearest_bar,
              HitOf(order[i]).target_time, HitOf(order[i]).milli_error>> ]

\* rhythm.rs:87-118: one iteration of `for event in &input_events.0`
BarIndexHandle(event) ==
    IF event.keycode = "None"
    THEN /\ dbg_hit' = <<>>
         /\ UNCHANGED entities
    ELSE /\ dbg_hit' = DbgTuples(event.keycode)
         /\ entities' = [ e \in Live |->
                            IF e \in TargetsHit(event.keycode)
                            THEN [entities[e] EXCEPT !.bar_index = HitOf(e).nearest_bar]
                            ELSE entities[e] ]

\* The bar of the design document's examples: beatsPerBar = 4
BeatsPerBar == 4

\* The lane definitions of the configuration: (input lane, bar-relative time),
\* each time built by make_bar_time(multiple, division, index)
LaneDefs(ctx) ==
    << <<"Left", MakeBarTime(ctx, 1, 1, 0)>>,
       <<"Left", MakeBarTime(ctx, 1, 3, 1)>>,
       <<"Right", MakeBarTime(ctx, 1, 1, 2)>> >>

\* A target of the bar-relative pipeline: TargetInput and TargetBarTime
LaneTarget(def) ==
    [time |-> Absent, input |-> def[1], bar_time |-> def[2], bar_index |-> Absent,
     color |-> NoColor, rect |-> <<0, 0>>, pos_x |-> 0, pos_y5 |-> 0]

\* The order of the systems in a tick: poll, clock, hit detection
ModularOrder(stage) ==
    CASE stage = "m_sdl" -> "m_clock"
      [] stage = "m_clock" -> "m_bar_index"
      [] stage = "m_bar_index" -> "m_sdl"

InitModular ==
    /\ pc = "m_sdl"
    /\ samples_written = FirstReadModular
    /\ audio_time = 0
    /\ \E milli_bpm \in {MilliBpm, NominalMilliBpm} :
          audio_context = AudioContextNew(milli_bpm, FirstBeatOffset, BeatsPerBar)
    /\ is_running = TRUE
    /\ debug_flag = FALSE
    /\ input_events = <<>>
    /\ event_index = 0
    /\ entities = [ e \in 1..Len(LaneDefs(audio_context)) |->
                      LaneTarget(LaneDefs(audio_context)[e]) ]
    /\ killed = {}
    /\ created = <<>>
    /\ sdl_rects = <<>>
    /\ canvas = <<>>
    /\ polled = 0
    /\ desyncs = 0
    /\ dbg_hit = <<>>
    /\ dbg_error = Absent

\* SdlSystem::run, sdl.rs:55-73
SdlPollModular ==
    /\ pc = "m_sdl"
    /\ \E batch \in PollBatches :
          /\ input_events' = batch
          /\ polled' = polled + Len(batch)
    /\ canvas' = sdl_rects
    /\ pc' = ModularOrder(pc)
    /\ UNCHANGED <<samples_written, audio_time, audio_context, is_running, debug_flag,
                   event_index, entities, killed, created, sdl_rects, desyncs, dbg_hit,
                   dbg_error>>

\* the audio clock of OmniSystem::run, main.rs:167-182
ClockModular ==
    /\ pc = "m_clock"
    /\ \E reading \in CounterAdvances(MaxChunksModular) : RefreshClock(reading)
    /\ event_index' = 1
    /\ pc' = IF input_events = <<>> THEN ModularOrder(ModularOrder(pc)) ELSE ModularOrder(pc)
    /\ UNCHANGED <<audio_context, is_running, input_events, entities,
                   killed, created, sdl_rects, canvas, polled, dbg_hit, dbg_error>>

\* BarIndexTaggingSystem::run, rhythm.rs:75-120: the next event of the queue
BarIndexTagging ==
    /\ pc = "m_bar_index"
    /\ BarIndexHandle(input_events[event_index])
    /\ event_index' = event_index + 1
    /\ pc' = IF event_index = Len(input_events) THEN ModularOrder(pc) ELSE pc
    /\ UNCHANGED <<samples_written, audio_time, audio_context, is_running, debug_flag,
                   input_events, killed, created, sdl_rects, canvas, polled, desyncs,
                   dbg_error>>

NextModular ==
    \/ SdlPollModular
    \/ ClockModular
    \/ BarIndexTagging

SpecModular == InitModular /\ [][NextModular]_vars

----------------------------------------------------------------------------
(* The bar-relative pipeline from its configuration on: the setup builds the *)
(* grid with AudioContext::new and the lane targets with make_bar_time, then *)
(* the ticks run.  An integer division by zero panics.                       *)

\* the clock is followed for MaxChunksConfig chunks
MaxChunksConfig == 4

\* the arguments the setup may pass to AudioContext::new and make_bar_time
ConfigMilliBpms == {0, NominalMilliBpm}
ConfigBeatsPerBar == {0, 1, BeatsPerBar}
ConfigDivisions == {0, 1, 2}

\* the lane definitions of a configuration: beats 1 and 2 of the bar, divided
ConfigLaneDefs(ctx, division) ==
    << <<"Left", MakeBarTime(ctx, 1, division, 1)>>,
       <<"Right", MakeBarTime(ctx, 1, division, 2)>> >>

\* #[derive(Default)] AudioContext and an empty world, before the setup
InitConfig ==
    /\ pc = "setup"
    /\ samples_written = FirstReadModular
    /\ audio_time = 0
    /\ audio_context = [milli_bpm |-> 0, first_beat_offset |-> 0, beats_per_bar |-> 0,
                        bar_millis |-> 0, beat_millis |-> 0]
    /\ is_running = TRUE
    /\ debug_flag = FALSE
    /\ input_events = <<>>
    /\ event_index = 0
    /\ entities = [ e \in {} |-> Baseline ]
    /\ killed = {}
    /\ created = <<>>
    /\ sdl_rects = <<>>
    /\ canvas = <<>>
    /\ polled = 0
    /\ desyncs = 0
    /\ dbg_hit = <<>>
    /\ dbg_error = Absent

\* The setup: AudioContext::new (rhythm.rs:29-30 divide by milli_bpm), then
\* one make_bar_time per lane (rhythm.rs:41 divides by division).
Setup ==
    /\ pc = "setup"
    /\ \E milli_bpm \in ConfigMilliBpms, beats_per_bar \in ConfigBeatsPerBar,
          division \in ConfigDivisions :
          IF milli_bpm = 0 \/ division = 0
          THEN /\ pc' = "setup_failed"
               /\ UNCHANGED <<audio_context, entities>>
          ELSE LET ctx == AudioContextNew(milli_bpm, FirstBeatOffset, beats_per_bar)
               IN  /\ audio_context' = ctx
                   /\ entities' = [ e \in 1..Len(ConfigLaneDefs(ctx, division)) |->
                                      LaneTarget(ConfigLaneDefs(ctx, division)[e]) ]
                   /\ pc' = "m_sdl"
    /\ UNCHANGED <<samples_written, audio_time, is_running, debug_flag, input_events,
                   event_index, killed, created, sdl_rects, canvas, polled, desyncs,
                   dbg_hit, dbg_error>>

\* the audio clock of OmniSystem::run, main.rs:167-182
ClockConfig ==
    /\ pc = "m_clock"
    /\ \E reading \in CounterAdvances(MaxChunksConfig) : RefreshClock(reading)
    /\ event_index' = 1
    /\ pc' = IF input_events = <<>> THEN ModularOrder(ModularOrder(pc)) ELSE ModularOrder(pc)
    /\ UNCHANGED <<audio_context, is_running, input_events, entities,
                   killed, created, sdl_rects, canvas, polled, dbg_hit, dbg_error>>

\* rhythm.rs:94 divides by audio_context.bar_millis for every unresolved
\* target of the key's lane
DividesByZero(event) ==
    /\ event.keycode # "None"
    /\ LaneCandidates(event.keycode) # {}
    /\ audio_context.bar_millis = 0

\* BarIndexTaggingSystem::run, rhythm.rs:75-120, with the panic of a division
\* by zero
BarIndexTaggingOrPanic ==
    /\ pc = "m_bar_index"
    /\ IF DividesByZero(input_events[event_index])
       THEN /\ pc' = "tick_panicked"
            /\ UNCHANGED <<samples_written, audio_time, audio_context, is_running,
                           debug_flag, input_events, event_index, entities, killed,
                           created, sdl_rects, canvas, polled, desyncs, dbg_hit,
                           dbg_error>>
       ELSE BarIndexTagging

NextConfig ==
    \/ Setup
    \/ SdlPollModular
    \/ ClockConfig
    \/ BarIndexTaggingOrPanic

SpecConfig == InitConfig /\ [][NextConfig]_vars

----------------------------------------------------------------------------
(* The bar-relative pipeline with a judgment: the hit of                     *)
(* BarIndexTaggingSystem is given the judgment colour OmniSystem gives a     *)
(* hit, by the error BarIndexTaggingSystem computed.  The grid is            *)
(* milli_bpm = 160000 with 4 beats in the bar, the only lane is at bar time  *)
(* 0.                                                                        *)

\* samples_written when the first tick reads it, and the chunks followed
FirstReadScenario == 8864
MaxChunksScenario == 36

\* the first read, on the chunk boundary or 5 ms after it
ScenarioReads == {FirstReadScenario, FirstReadScenario + Chunk \div 10}

\* the target of the lane, with the Color component that holds its judgment
ScenarioTarget(ctx) ==
    [LaneTarget(<<"Left", MakeBarTime(ctx, 1, 1, 0)>>) EXCEPT !.color = Black]

InitScenario ==
    /\ pc = "m_sdl"
    /\ samples_written \in ScenarioReads
    /\ audio_time = 0
    /\ audio_context = AudioContextNew(NominalMilliBpm, FirstBeatOffset, BeatsPerBar)
    /\ is_running = TRUE
    /\ debug_flag = FALSE
    /\ input_events = <<>>
    /\ event_index = 0
    /\ entities = (1 :> ScenarioTarget(audio_context))
    /\ killed = {}
    /\ created = <<>>
    /\ sdl_rects = <<>>
    /\ canvas = <<>>
    /\ polled = 0
    /\ desyncs = 0
    /\ dbg_hit = <<>>
    /\ dbg_error = Absent

\* the audio clock of OmniSystem::run, main.rs:167-182
ClockScenario ==
    /\ pc = "m_clock"
    /\ \E reading \in CounterAdvances(MaxChunksScenario) : RefreshClock(reading)
    /\ event_index' = 1
    /\ pc' = IF input_events = <<>> THEN ModularOrder(ModularOrder(pc)) ELSE ModularOrder(pc)
    /\ UNCHANGED <<audio_context, is_running, input_events, entities,
                   killed, created, sdl_rects, canvas, polled, dbg_hit, dbg_error>>

\* rhythm.rs:87-118 for one event, each hit also judged as in main.rs:206-215
JudgedHandle(event) ==
    IF event.keycode = "None"
    THEN /\ dbg_hit' = <<>>
         /\ UNCHANGED entities
    ELSE /\ dbg_hit' = DbgTuples(event.keycode)
         /\ entities' = [ e \in Live |->
                            IF e \in TargetsHit(event.keycode)
                            THEN [entities[e] EXCEPT
                                    !.bar_index = HitOf(e).nearest_bar,
                                    !.color = IF entities[e].color # NoColor
                                              THEN JudgmentColor(HitOf(e).milli_error)
                                              ELSE NoColor]
                            ELSE entities[e] ]

\* BarIndexTaggingSystem::run with the judgment: the next event of the queue
BarIndexJudging ==
    /\ pc = "m_bar_index"
    /\ JudgedHandle(input_events[event_index])
    /\ event_index' = event_index + 1
    /\ pc' = IF event_index = Len(input_events) THEN ModularOrder(pc) ELSE pc
    /\ UNCHANGED <<samples_written, audio_time, audio_context, is_running, debug_flag,
                   input_events, killed, created, sdl_rects, canvas, polled, desyncs,
                   dbg_error>>

NextScenario ==
    \/ SdlPollModular
    \/ ClockScenario
    \/ BarIndexJudging

SpecScenario == InitScenario /\ [][NextScenario]_vars

----------------------------------------------------------------------------
(* Properties *)

\* the entities that gain a BarIndex in a step
NewlyResolved ==
    { e \in Live : /\ e \in DOMAIN entities'
                   /\ entities[e].bar_index = Absent
                   /\ entities'[e].bar_index # Absent }

\* |t - (bar_time + k * barMillis)|
OccurrenceError(t, bar_time, k) == AbsDiff(t, bar_time + k * audio_context.bar_millis)

\* the least error of t against the occurrences k >= 0 of bar_time
LeastError(t, bar_time) ==
    Min({ OccurrenceError(t, bar_time, k) : k \in 0..(t \div audio_context.bar_millis + 1) })

\* round(d / barMillis), halves away from zero, clamped to >= 0
RoundedBars(d) ==
    IF d < 0 THEN 0
    ELSE (2 * d + audio_context.bar_millis) \div (2 * audio_context.bar_millis)

\* a key event has been handled since the clock was last refreshed
HandledThisTick == event_index > 1

\* C1: no two targets the scheduler has created in a run have the same input
\* lane and the same target time.
C1_NoDuplicateTargets ==
    \A i, j \in DOMAIN created :
        (created[i].input = created[j].input /\ created[i].time = created[j].time)
            => i = j

\* C1 witness: a long run with key events, in which targets of both lanes were
\* created and the first one has been reaped.
C1_Witness ==
    /\ Len(created) >= 8
    /\ polled > 0
    /\ created[1].entity \notin Live
    /\ created[Len(created)].entity \in Live

\* C2: every step of the hit detector (one key event) resolves at most one target.
C2_AtMostOneResolved ==
    [][pc = "m_bar_index" => Cardinality(NewlyResolved) <= 1]_vars

\* C3: the target a key event resolves has the least error among the unresolved
\* targets of the key's lane that are within tolerance, and the lowest entity id
\* among those with that error.
C3_ResolvesNearest ==
    [][pc = "m_bar_index" =>
        \A e \in NewlyResolved :
            \A o \in LaneCandidates(entities[e].input) :
                LeastError(audio_time, entities[o].bar_time) < Tolerance =>
                    \/ LeastError(audio_time, entities[e].bar_time)
                         < LeastError(audio_time, entities[o].bar_time)
                    \/ /\ LeastError(audio_time, entities[e].bar_time)
                            = LeastError(audio_time, entities[o].bar_time)
                       /\ e <= o]_vars

\* C4: once a target has a hit result (a BarIndex, or the judgment colour a key
\* gave it), no later step changes that result as long as the entity lives.
C4_ResolvedIsInert ==
    [][\A e \in Live \cap DOMAIN entities' :
          /\ entities[e].bar_index # Absent =>
                entities'[e].bar_index = entities[e].bar_index
          /\ (entities[e].time # Absent /\ entities[e].color # Black) =>
                entities'[e].color = entities[e].color]_vars

\* C5: for every candidate the hit detector examines at audio time T, nearestK
\* is round((T - targetBarTime) / barMillis) clamped to >= 0, the occurrence
\* time is targetBarTime + nearestK * barMillis, the error is |T - occurrence
\* time|, and no occurrence k >= 0 is nearer to T.
C5_NearestOccurrence ==
    [][pc = "m_bar_index" =>
        \A i \in DOMAIN dbg_hit' :
            LET bar_time == dbg_hit'[i][1]
                nearest_bar == dbg_hit'[i][2]
                target_time == dbg_hit'[i][3]
                milli_error == dbg_hit'[i][4]
            IN  /\ nearest_bar = RoundedBars(audio_time - bar_time)
                /\ target_time = bar_time + nearest_bar * audio_context.bar_millis
                /\ milli_error = AbsDiff(audio_time, target_time)
                /\ milli_error = LeastError(audio_time, bar_time)]_vars

\* C5 witness: targetBarTime = 0, barMillis = 1500, T = 3100 gave nearestK = 2,
\* occurrenceTime = 3000, errorMs = 100.
C5_Witness ==
    /\ HandledThisTick
    /\ audio_time = 3100
    /\ audio_context.bar_millis = 1500
    /\ \E i \in DOMAIN dbg_hit : dbg_hit[i] = <<0, 2, 3000, 100>>

\* C6: a key event resolves an unresolved target only if the target is of the
\* key's lane and its error at the current audio time is below the tolerance
\* of 100 ms, and it does resolve a target when there is such a one; a target
\* whose error is not below the tolerance stays unresolved.
C6_ResolvedOnlyWithinTolerance ==
    [][pc = "m_bar_index" =>
        LET within == { e \in UnresolvedBarTargets :
                          /\ entities[e].input = input_events[event_index].keycode
                          /\ LeastError(audio_time, entities[e].bar_time) < 100 }
        IN  /\ NewlyResolved \subseteq within
            /\ within # {} => NewlyResolved # {}]_vars

\* C6 witness: with targetBarTime = 0 and barMillis = 1500 a key at T = 3050
\* (error 50) resolved the target, which a key at T = 1400 had left unresolved.
C6_Witness ==
    /\ HandledThisTick
    /\ audio_time = 3050
    /\ audio_context.bar_millis = 1500
    /\ \E i \in DOMAIN dbg_hit : dbg_hit[i] = <<0, 2, 3000, 50>>
    /\ \E e \in Live : entities[e].bar_time = 0 /\ entities[e].bar_index = 2

\* C7: a key event that finds no target of its lane within the matching window
\* of the audio time changes no entity and no component.
C7_MissMutatesNothing ==
    [][(/\ pc = "omni_events"
        /\ Head(input_events).keycode \in LaneKeys
        /\ \A e \in TimedTargets :
              entities[e].input = Head(input_events).keycode =>
                  AbsDiff(entities[e].time, audio_time) >= OmniWindow)
       => entities' = entities]_vars

\* C8 as claimed: after every tick a created target is still alive exactly when
\* its target time is less than the grace period in the past.
C8_ReapedAtGrace ==
    pc = "omni" =>
        \A i \in DOMAIN created :
            created[i].entity \in Live <=> audio_time - created[i].time < 1000

\* C8 amended: after every tick a created target is still alive exactly when
\* its target time is at most the grace period in the past: the reaper deletes
\* every target more than 1000 ms in the past and no other.
C8_ReapedPastGrace ==
    pc = "omni" =>
        \A i \in DOMAIN created :
            created[i].entity \in Live <=> audio_time - created[i].time <= 1000

\* C8 witness: after a tick, one target is exactly the grace period in the past
\* and alive, next to later ones.
C8_Witness ==
    /\ pc = "omni"
    /\ Len(created) >= 2
    /\ \E i \in DOMAIN created :
          /\ audio_time - created[i].time = 1000
          /\ created[i].entity \in Live

\* C9: with a counter that never decreases, audio time never decreases from
\* one tick to the next, and it is 0 while the counter is before the
\* first-beat offset.
C9_ClockMonotone ==
    /\ [][audio_time' >= audio_time]_vars
    /\ [](samples_written * 1000 < audio_context.first_beat_offset * SamplesPerSec
            => audio_time = 0)

\* C9 witness: the counter has advanced, is still before the first-beat offset,
\* and the clock that read it is 0.
C9_Witness ==
    /\ pc = "rendering"
    /\ samples_written > FirstRead
    /\ samples_written * 1000 < audio_context.first_beat_offset * SamplesPerSec
    /\ audio_time = 0

\* C10: when the counter is read lower than on the previous tick, audio time
\* does not go backward.
C10_ClockClampsOnDecrease ==
    [][samples_written' < samples_written => audio_time' >= audio_time]_vars

\* what handling the lane key event `event` yields in OmniSystem::run: the
\* target selected, whether there is one, its error and its judgment colour
OmniOutcome(event) ==
    IF OmniCandidates(event.keycode) = {}
    THEN <<Absent, FALSE, Absent, NoColor>>
    ELSE LET e == OmniTarget(event.keycode)
             error == OmniError(event.timestamp, entities[e].time)
         IN  <<e, TRUE, error, JudgmentColor(error)>>

\* C11: handling a lane key event gives the same target, the same error and
\* the same judgment whatever Display timestamp the event carries: the error
\* printed and the components written by the step are those of the same event
\* with any other timestamp.
C11_TimestampIndependent ==
    [][(pc = "omni_events" /\ Head(input_events).keycode \in LaneKeys) =>
        \A ts \in Timestamps :
            LET other == OmniOutcome([Head(input_events) EXCEPT !.timestamp = ts])
            IN  /\ dbg_error' = other[3]
                /\ other[2] =>
                      (entities[other[1]].color # NoColor =>
                          entities'[other[1]].color = other[4])]_vars

\* C12: the grid in use has beat_millis = 60_000_000 / milli_bpm and
\* bar_millis = beat_millis * beats_per_bar exactly.
C12_BarIsBeatsTimesBeat ==
    /\ audio_context.beat_millis = MicrosPerMinute \div audio_context.milli_bpm
    /\ audio_context.bar_millis = audio_context.beat_millis * audio_context.beats_per_bar

\* C13: after every run of the scheduler at least one target has a target
\* time strictly greater than the audio time.
C13_FutureTargetExists ==
    pc = "reaper" => \E e \in TimedTargets : entities[e].time > audio_time

\* the most targets that fit between the grace period behind the audio time
\* and the lookahead window ahead of it, one note period apart
MaxLiveTargets ==
    ((Lookahead + Grace) * 2 * audio_context.milli_bpm) \div MicrosPerMinute + 2

C15_StopsOnlyOnEscape ==
    /\ [][(is_running /\ ~is_running') =>
            (pc = "omni_events" /\ Head(input_events).keycode = "Escape")]_vars
    /\ [][~is_running => ~is_running']_vars
    /\ [][pc' = "exited" => (pc = "maintain" /\ ~is_running)]_vars
    /\ [][~is_running => pc' # "omni"]_vars

\* C15 witness: an Escape key stopped the loop, which has exited after the
\* systems of that tick ran (the target of that tick exists).
C15_Witness ==
    /\ pc = "exited"
    /\ ~is_running
    /\ Len(created) >= 2

\* C17: whether or not the audio device is available, the clock stage of a
\* tick hands over to the rest of the tick: the queued key events are kept
\* and handled next (or, with none queued, the next system runs), and audio
\* time keeps its value when the counter was not read.
C17_TickSurvivesDeviceLoss ==
    [][pc = "omni" =>
        /\ pc' = (IF input_events = <<>> THEN "rendering" ELSE "omni_events")
        /\ input_events' = input_events
        /\ (samples_written' = samples_written => audio_time' = audio_time)]_vars

\* C18: the queue is first-in first-out and every polled event is handled
\* once: a handling step takes exactly the oldest queued event, a poll only
\* appends, no other step touches the queue, and no polled event is left
\* unhandled when the loop has ended.
C18_EveryEventHandledOnce ==
    /\ [][pc = "omni_events" => input_events' = Tail(input_events)]_vars
    /\ [][pc = "sdl" =>
            /\ Len(input_events') >= Len(input_events)
            /\ SubSeq(input_events', 1, Len(input_events)) = input_events]_vars
    /\ [][pc \notin {"omni_events", "sdl"} => input_events' = input_events]_vars
    /\ [](pc = "exited" => input_events = <<>>)

\* the first quaver of the grid after audio time t
FirstOccurrenceAfter(t) ==
    NextTime(Min({ q \in 0..(t + 1) : NextTime(q) > t }))

\* C19: when no target exists, the scheduler creates one target, and it is
\* the first grid occurrence after the audio time (which is always less than
\* the lookahead window away).
C19_FirstOccurrenceWhenEmpty ==
    [][(pc = "quaver" /\ TimedTargets = {}) =>
        /\ Len(created') = Len(created) + 1
        /\ created'[Len(created')].time = FirstOccurrenceAfter(audio_time)]_vars

\* C20: the draw list of a tick holds, for every target, the offset computed
\* from that tick's audio time: y = round(200 + 0.8 * (target time - T)).
C20_DrawnAtThisTicksOffset ==
    pc = "time_scrolling" =>
        LET drawn == Ascending({ e \in Live : entities[e].color # NoColor })
        IN  /\ Len(sdl_rects) = Len(drawn)
            /\ \A i \in DOMAIN sdl_rects :
                  entities[drawn[i]].time # Absent =>
                      sdl_rects[i].y = RoundY(ScrolledY5(entities[drawn[i]].time))

\* C16: a configuration with milli_bpm = 0 or a bar-time division of 0 never
\* gets past the setup, and no tick divides by zero.
C16_NoDivisionByZeroInTick ==
    /\ pc \notin {"setup", "setup_failed"} => audio_context.milli_bpm # 0
    /\ pc # "tick_panicked"

\* C22: target times are strictly increasing in creation order, so a target
\* the scheduler creates is later than every target that exists or ever
\* existed; it is later than the audio time of its creation; and the quaver
\* index recovered from the latest live target's time, by the division with
\* the remainder > 30_000 round-up, is the index that target was created with.
C22_TimesIncreaseInCreationOrder ==
    /\ [](\A i \in 1..(Len(created) - 1) : created[i].time < created[i + 1].time)
    /\ [][Len(created') > Len(created) =>
            created'[Len(created')].time > audio_time]_vars
    /\ [](LET latest == MaxTargetTime IN \A i \in DOMAIN created :
            (created[i].entity \in Live /\ created[i].time = latest) =>
                LET adj == created[i].time - audio_context.first_beat_offset
                    product == adj * audio_context.milli_bpm * 2
                    recovered == product \div 60000000
                                   + (IF product % 60000000 > 30000 THEN 1 ELSE 0)
                IN  recovered = created[i].quaver)

\* C22 witness: the scheduler has just created a target, after the first
\* target was reaped and while later ones live.
C22_Witness ==
    /\ pc = "reaper"
    /\ Len(created) >= 3
    /\ created[1].entity \notin Live
    /\ created[Len(created)].entity \in Live
    /\ created[Len(created)].time = MaxTargetTime
    /\ created[Len(created)].time - audio_time < Lookahead

====
